---- MODULE Spec2Model ----
(***************************************************************************)
(* vehicle-intel (src/src/index.ts): the lookup orchestration layer over   *)
(* the NHTSA services.                                                     *)
(*                                                                         *)
(* A string is a sequence of one-character strings, so that toUpperCase,   *)
(* toLowerCase, substring and the comparisons with '' and 'Not Applicable' *)
(* are computed.  The value undefined is the one-element sequence          *)
(* <<"undefined">>, which no string of characters equals.                  *)
(*                                                                         *)
(* The upstream answers a call with an HTTP status; a body of a success    *)
(* status has the shape spec.md section 6 gives for its endpoint (values   *)
(* of a decode are strings), with the result list possibly absent where    *)
(* the code provides for that (Results?. and results || []).               *)
(***************************************************************************)
EXTENDS Integers, Sequences, FiniteSets, Bags, TLC

\* ------------------------------------------------------------- constants
VIN_LENGTH == 17
MIN_VINS == 2
MAX_VINS == 5
LIST_CAP == 20
SUMMARY_CAP == 500

\* ---------------------------------------------------------------- bounds
MaxPairs == 3
MaxSubjects == 2
MaxListLen == 22
MaxSummaryLen == 502

\* --------------------------------------------------------------- strings
Undefined == <<"undefined">>

LowerCaseLetters ==
  <<"a","b","c","d","e","f","g","h","i","j","k","l","m",
    "n","o","p","q","r","s","t","u","v","w","x","y","z">>

UpperCaseLetters ==
  <<"A","B","C","D","E","F","G","H","I","J","K","L","M",
    "N","O","P","Q","R","S","T","U","V","W","X","Y","Z">>

IndexOf(letters, c) == CHOOSE i \in 1..Len(letters) : letters[i] = c

IsIn(letters, c) == \E i \in 1..Len(letters) : letters[i] = c

toUpperCase(s) ==
  [i \in 1..Len(s) |->
     IF IsIn(LowerCaseLetters, s[i])
     THEN UpperCaseLetters[IndexOf(LowerCaseLetters, s[i])]
     ELSE s[i]]

\* a toLowerCase that leaves its argument as it is
toLowerCaseKeepsCase(s) == s

toLowerCase(s) ==
  [i \in 1..Len(s) |->
     IF IsIn(UpperCaseLetters, s[i])
     THEN LowerCaseLetters[IndexOf(UpperCaseLetters, s[i])]
     ELSE s[i]]

Min(a, b) == IF a < b THEN a ELSE b

\* a substring that stops one character early, a slice that takes one more
substringOneShort(s, end) == SubSeq(s, 1, Min(end - 1, Len(s)))

sliceOneMore(list, end) == SubSeq(list, 1, Min(end + 1, Len(list)))

\* s.substring(0, end) and list.slice(0, end), for end >= 0
substring(s, end) == SubSeq(s, 1, Min(end, Len(s)))

slice(list, end) == SubSeq(list, 1, Min(end, Len(list)))

\* the values a decode carries
EmptyString == <<>>
NotApplicable == <<"N","o","t"," ","A","p","p","l","i","c","a","b","l","e">>
NotApplicableLower == <<"n","o","t"," ","a","p","p","l","i","c","a","b","l","e">>
Honda == <<"H","O","N","D","A">>
Accord == <<"A","c","c","o","r","d">>
Tesla == <<"T","E","S","L","A">>
ModelS == <<"M","o","d","e","l"," ","S">>
Year2003 == <<"2","0","0","3">>
Year2017 == <<"2","0","1","7">>
Zero == <<"0">>
One == <<"1">>
TextClean == <<"0"," ","-"," ","o","k">>
TextBad == <<"1"," ","-"," ","C","h","e","c","k"," ","D","i","g","i","t">>

\* JavaScript truthiness of a string or undefined
Truthy(v) == v # Undefined /\ v # EmptyString

\* ------------------------------------------------------- RecordNormalizer
EmptyRecord == [k \in {} |-> EmptyString]

Put(rec, k, v) == [x \in (DOMAIN rec) \cup {k} |-> IF x = k THEN v ELSE rec[x]]

\* rec[k] of a JavaScript object: undefined when the key is absent
Get(rec, k) == IF k \in DOMAIN rec THEN rec[k] ELSE Undefined

\* the loop body without its test for 'Not Applicable'
CleanItemKeepsPlaceholder(cleaned, item) ==
  IF Truthy(item.Value) /\ item.Value # EmptyString
  THEN Put(cleaned, item.Variable, item.Value)
  ELSE cleaned

\* a loop body that keeps the first value it has put for a Variable
CleanItemFirstWins(cleaned, item) ==
  IF Truthy(item.Value) /\ item.Value # EmptyString /\ item.Value # NotApplicable
     /\ item.Variable \notin DOMAIN cleaned
  THEN Put(cleaned, item.Variable, item.Value)
  ELSE cleaned

\* one iteration of the loop of cleanVinResults
CleanItem(cleaned, item) ==
  IF Truthy(item.Value) /\ item.Value # EmptyString /\ item.Value # NotApplicable
  THEN Put(cleaned, item.Variable, item.Value)
  ELSE cleaned

RECURSIVE CleanFrom(_, _, _)
CleanFrom(results, i, cleaned) ==
  IF i > Len(results) THEN cleaned
  ELSE CleanFrom(results, i + 1, CleanItem(cleaned, results[i]))

cleanVinResults(results) == CleanFrom(results, 1, EmptyRecord)

\* encodeURIComponent: letters, digits and - _ . ! ~ * ' ( ) are kept, the
\* other characters the inputs use are percent-encoded
Digits == <<"0","1","2","3","4","5","6","7","8","9">>

Unreserved(c) ==
  \/ IsIn(LowerCaseLetters, c)
  \/ IsIn(UpperCaseLetters, c)
  \/ IsIn(Digits, c)
  \/ c \in {"-", "_", ".", "!", "~", "*", "'", "(", ")"}

PercentEncoded(c) ==
  CASE c = " " -> <<"%","2","0">>
    [] c = "&" -> <<"%","2","6">>
    [] c = "/" -> <<"%","2","F">>
    [] OTHER -> <<"%","3","F">>

RECURSIVE encodeURIComponent(_)
encodeURIComponent(s) ==
  IF s = <<>> THEN <<>>
  ELSE (IF Unreserved(Head(s)) THEN <<Head(s)>> ELSE PercentEncoded(Head(s)))
       \o encodeURIComponent(Tail(s))

\* `${n}` of a non-negative integer
RECURSIVE NumberToString(_)
NumberToString(n) ==
  IF n < 10 THEN <<Digits[n + 1]>>
  ELSE NumberToString(n \div 10) \o <<Digits[(n % 10) + 1]>>

\* ---------------------------------------------------------- upstream URLs
\* a URL is its endpoint and its path or query parameters
Url(endpoint, vin, make, model, modelYear) ==
  [endpoint |-> endpoint, vin |-> vin, make |-> make, model |-> model,
   modelYear |-> modelYear]

AllMakesUrl == Url("vpic/GetAllMakes", <<>>, <<>>, <<>>, <<>>)

DecodeUrl(vin) == Url("vpic/decodevin", vin, <<>>, <<>>, <<>>)

ModelsUrl(make) == Url("vpic/GetModelsForMake", <<>>, encodeURIComponent(make), <<>>, <<>>)

RecallsByVehicleUrl(make, model, year) ==
  Url("recalls/recallsByVehicle", <<>>, encodeURIComponent(make),
      encodeURIComponent(model), year)

RecallsByVinUrl(vin) == Url("recalls/recallsByVehicle", vin, <<>>, <<>>, <<>>)

ComplaintsUrl(make, model, year) ==
  Url("complaints/complaintsByVehicle", <<>>, encodeURIComponent(make),
      encodeURIComponent(model), NumberToString(year))

\* ----------------------------------------------------- upstream responses
NoBody == [none |-> TRUE]

NoResponse == [status |-> 0, body |-> NoBody]

Response(status, body) == [status |-> status, body |-> body]

\* response.ok
Ok(response) == response.status \in 200..299

\* a fetchJSON that does not look at response.ok
fetchJSONUnchecked(response) ==
  [threw |-> FALSE, error |-> 0,
   json |-> IF Ok(response) THEN response.body
            ELSE [Results |-> <<>>, results |-> <<>>]]

\* fetchJSON after the fetch has settled: the parsed body, or the thrown error
fetchJSON(response) ==
  IF ~Ok(response)
  THEN [threw |-> TRUE, error |-> response.status, json |-> NoBody]
  ELSE [threw |-> FALSE, error |-> 0, json |-> response.body]

Pair(variable, value) == [Variable |-> variable, Value |-> value]

BodyHonda ==
  <<Pair("Make", Honda), Pair("Model", Accord), Pair("Model Year", Year2003),
    Pair("Trim", NotApplicable), Pair("Error Code", Zero),
    Pair("Error Text", TextClean)>>

BodyNoYear ==
  <<Pair("Make", Tesla), Pair("Model", ModelS), Pair("Model Year", EmptyString),
    Pair("Error Code", One), Pair("Error Text", TextBad)>>

BodyNoMake ==
  <<Pair("Make", NotApplicable), Pair("Model", ModelS),
    Pair("Model Year", Year2017), Pair("Error Code", Zero),
    Pair("Error Text", EmptyString)>>

BodyNoModel ==
  <<Pair("Make", Tesla), Pair("Model Year", Year2017),
    Pair("Error Code", NotApplicable)>>

DecodeBodies == {BodyHonda, BodyNoYear, BodyNoMake, BodyNoModel}

DecodeResponses ==
  {Response(200, [Results |-> b]) : b \in DecodeBodies} \cup {Response(500, NoBody)}

\* upstream lists: entries numbered 1..n, in ascending or descending order
Numbering(n, ascending) == [i \in 1..n |-> IF ascending THEN i ELSE n + 1 - i]

RecallRow(j) ==
  [NHTSACampaignNumber |-> j, Component |-> 100 + j, Summary |-> 200 + j,
   Consequence |-> 300 + j, Remedy |-> 400 + j, Manufacturer |-> 500 + j,
   ReportReceivedDate |-> 600 + j]

RecallList(n, ascending) ==
  [i \in 1..n |-> RecallRow(Numbering(n, ascending)[i])]

\* a body with its result list, or without one
ListBodies(lists) == {[results |-> l] : l \in lists} \cup {[Count |-> 0]}

RecallResponses ==
  {Response(200, b) :
     b \in ListBodies({RecallList(n, a) : n \in 0..MaxListLen, a \in BOOLEAN})}
  \cup {Response(500, NoBody)}

AuxRecallResponses ==
  {Response(200, b) : b \in ListBodies({RecallList(2, TRUE)})}
  \cup {Response(500, NoBody)}

\* a summary of n characters
Text(n) == [i \in 1..n |-> LowerCaseLetters[(i % 26) + 1]]

SummaryLengths == {0, 1, SUMMARY_CAP - 1, SUMMARY_CAP, SUMMARY_CAP + 1, MaxSummaryLen}

\* entry j of a complaint list: the odd entries carry the long summary, the
\* others a short one of their own; every fourth entry has no summary
ComplaintRow(j, long) ==
  [odiNumber |-> j,
   components |-> 100 + j,
   summary |-> IF j % 4 = 0 THEN Undefined
               ELSE IF j % 2 = 1 THEN Text(long) ELSE Text(j),
   crash |-> j % 2 = 0, fire |-> FALSE, injuries |-> j % 3,
   dateOfIncident |-> 600 + j, dateComplaintFiled |-> 700 + j]

ComplaintList(n, ascending, long) ==
  [i \in 1..n |-> ComplaintRow(Numbering(n, ascending)[i], long)]

ComplaintResponses ==
  {Response(200, b) :
     b \in ListBodies({ComplaintList(n, a, k) :
                         n \in 0..MaxListLen, a \in BOOLEAN, k \in SummaryLengths})}
  \cup {Response(500, NoBody)}

ModelRow(make, j) == [Make_Name |-> make, Model_Name |-> j]

ModelsResponses ==
  {Response(200, [Results |-> [i \in 1..n |-> ModelRow(Honda, i)]]) : n \in {0, 2}}
  \cup {Response(200, [Count |-> 0]), Response(500, NoBody)}

MakesResponses ==
  {Response(200, [Results |-> [i \in 1..n |-> [Make_ID |-> i]]]) : n \in {0, 2}}
  \cup {Response(200, [Count |-> 0]), Response(500, NoBody)}

\* ---------------------------------------------------------------- inputs
VinHonda == <<"1","h","g","c","m","8","2","6","3","3","a","0","0","4","3","5","2">>
VinTesla == <<"5","Y","J","S","A","1","E","2","6","H","F","0","0","0","3","3","7">>
VinShort == <<"1","h","g","c","m","8">>

Vins == {VinHonda, VinTesla, VinShort}

RECURSIVE SeqsOfLen(_, _)
SeqsOfLen(S, n) ==
  IF n = 0 THEN {<<>>}
  ELSE {Append(q, x) : q \in SeqsOfLen(S, n - 1), x \in S}

\* one identification number more than the schema of compare allows
TooManyVins == {[i \in 1..(MAX_VINS + 1) |-> v] : v \in {VinHonda, VinTesla}}

VinLists == UNION {SeqsOfLen(Vins, n) : n \in 1..MaxSubjects} \cup TooManyVins

EntryKeys == {"overview", "decode-vin", "recalls-by-vin", "models", "complaints", "compare"}

Inputs(key) ==
  CASE key = "overview" -> {[none |-> TRUE]}
    [] key = "decode-vin" -> {[vin |-> v] : v \in Vins}
    [] key = "recalls-by-vin" -> {[vin |-> v] : v \in Vins}
    [] key = "models" -> {[make |-> m] : m \in {Honda, ModelS}}
    [] key = "complaints" -> {[make |-> Honda, model |-> m, year |-> 2003] : m \in {Accord, ModelS}}
    [] key = "compare" -> {[vins |-> l] : l \in VinLists}

\* a schema of compare without .min(2).max(5)
ValidAnyCount(key, in) ==
  CASE key \in {"decode-vin", "recalls-by-vin"} -> Len(in.vin) = VIN_LENGTH
    [] key = "compare" -> \A i \in 1..Len(in.vins) : Len(in.vins[i]) = VIN_LENGTH
    [] OTHER -> TRUE

\* the input schema of an entrypoint, which the registry enforces before it
\* calls the handler
Valid(key, in) ==
  CASE key \in {"decode-vin", "recalls-by-vin"} -> Len(in.vin) = VIN_LENGTH
    [] key = "compare" ->
         /\ Len(in.vins) >= MIN_VINS
         /\ Len(in.vins) <= MAX_VINS
         /\ \A i \in 1..Len(in.vins) : Len(in.vins[i]) = VIN_LENGTH
    [] OTHER -> TRUE

\* --------------------------------------------------------------- outputs
Null == <<"null">>

PopularMakes ==
  <<"Toyota", "Ford", "Honda", "Chevrolet", "Tesla", "BMW", "Mercedes-Benz",
    "Audi", "Volkswagen", "Nissan">>

\* data.Results?.length || 0, and data.results || [] followed by .length
ListOf(json, field) == IF field \in DOMAIN json THEN json[field] ELSE <<>>

OverviewOutput(makes, now) ==
  [totalMakes |-> Len(ListOf(makes, "Results")),
   popularMakes |-> PopularMakes,
   dataSource |-> "NHTSA (National Highway Traffic Safety Administration)",
   fetchedAt |-> now]

\* validity as the mere presence of an error code
IsValidIfCoded(specs) == Truthy(Get(specs, "Error Code"))

\* specs['Error Code'] === '0'
IsValid(specs) == Get(specs, "Error Code") = Zero

DecodeVinOutput(vin, specs, now) ==
  [vin |-> vin,
   isValid |-> IsValid(specs),
   errorMessage |-> Get(specs, "Error Text"),
   vehicle |-> [make |-> Get(specs, "Make"),
                model |-> Get(specs, "Model"),
                year |-> Get(specs, "Model Year"),
                trim |-> Get(specs, "Trim"),
                bodyClass |-> Get(specs, "Body Class"),
                vehicleType |-> Get(specs, "Vehicle Type"),
                doors |-> Get(specs, "Doors")],
   engine |-> [displacement |-> Get(specs, "Displacement (L)"),
               cylinders |-> Get(specs, "Engine Number of Cylinders"),
               fuelType |-> Get(specs, "Fuel Type - Primary"),
               horsepower |-> Get(specs, "Engine Brake (hp) From")],
   manufacturer |-> [name |-> Get(specs, "Manufacturer Name"),
                     plantCity |-> Get(specs, "Plant City"),
                     plantCountry |-> Get(specs, "Plant Country")],
   safety |-> [airbags |-> Get(specs, "Air Bag Loc Front"),
               abs |-> Get(specs, "Brake System Type")],
   fetchedAt |-> now]

\* the identity test without the model year
IdentityMissingMakeOrModel(specs) ==
  \/ ~Truthy(Get(specs, "Make"))
  \/ ~Truthy(Get(specs, "Model"))

\* !specs['Make'] || !specs['Model'] || !specs['Model Year']
IdentityMissing(specs) ==
  \/ ~Truthy(Get(specs, "Make"))
  \/ ~Truthy(Get(specs, "Model"))
  \/ ~Truthy(Get(specs, "Model Year"))

UnresolvedOutput(vin) ==
  [vin |-> vin,
   error |-> "Could not decode VIN to get vehicle details",
   vehicle |-> Null,
   recallCount |-> 0,
   recalls |-> <<>>]

\* phase 2 through fetchJSON, whose error is not caught
RecallLookupThrowing(response) ==
  IF Ok(response)
  THEN [threw |-> FALSE, error |-> 0, recalls |-> ListOf(response.body, "results")]
  ELSE [threw |-> TRUE, error |-> response.status, recalls |-> <<>>]

\* phase 2 of recalls-by-vin after its fetch has settled: the recall list
RecallLookup(response) ==
  IF Ok(response)
  THEN [threw |-> FALSE, error |-> 0, recalls |-> ListOf(response.body, "results")]
  ELSE [threw |-> FALSE, error |-> 0, recalls |-> <<>>]

RecallRecord(r) ==
  [campaignNumber |-> r.NHTSACampaignNumber,
   component |-> r.Component,
   summary |-> r.Summary,
   consequence |-> r.Consequence,
   remedy |-> r.Remedy,
   manufacturer |-> r.Manufacturer]

\* an output whose recallCount counts the recalls it returns
RecallsOutputCountsReturned(vin, specs, recalls, now) ==
  [vin |-> vin,
   vehicle |-> Get(specs, "Model Year") \o <<" ">> \o Get(specs, "Make")
               \o <<" ">> \o Get(specs, "Model"),
   recallCount |-> Len(slice(recalls, LIST_CAP)),
   recalls |-> [i \in 1..Len(slice(recalls, LIST_CAP)) |->
                 RecallRecord(slice(recalls, LIST_CAP)[i])],
   fetchedAt |-> now]

RecallsOutput(vin, specs, recalls, now) ==
  [vin |-> vin,
   vehicle |-> Get(specs, "Model Year") \o <<" ">> \o Get(specs, "Make")
               \o <<" ">> \o Get(specs, "Model"),
   recallCount |-> Len(recalls),
   recalls |-> [i \in 1..Len(slice(recalls, LIST_CAP)) |->
                 RecallRecord(slice(recalls, LIST_CAP)[i])],
   fetchedAt |-> now]

ModelsOutput(make, data, now) ==
  [make |-> make,
   modelCount |-> Len(ListOf(data, "Results")),
   models |-> [i \in 1..Len(ListOf(data, "Results")) |->
                ListOf(data, "Results")[i].Model_Name],
   fetchedAt |-> now]

ComplaintRecord(c) ==
  [id |-> c.odiNumber,
   component |-> c.components,
   summary |-> IF c.summary = Undefined THEN Undefined
               ELSE substring(c.summary, SUMMARY_CAP),
   crash |-> c.crash,
   fire |-> c.fire,
   injuries |-> c.injuries,
   dateReceived |-> c.dateOfIncident]

ComplaintsOutput(in, data, now) ==
  [vehicle |-> NumberToString(in.year) \o <<" ">> \o in.make \o <<" ">> \o in.model,
   complaintCount |-> Len(ListOf(data, "results")),
   complaints |-> [i \in 1..Len(slice(ListOf(data, "results"), LIST_CAP)) |->
                    ComplaintRecord(slice(ListOf(data, "results"), LIST_CAP)[i])],
   fetchedAt |-> now]

\* the recall lookup of a compare pipeline outside any try/catch
RecallCountUncaught(fetched) ==
  IF fetched.threw
  THEN [threw |-> TRUE, error |-> fetched.error, recallCount |-> 0]
  ELSE [threw |-> FALSE, error |-> 0,
        recallCount |-> Len(ListOf(fetched.json, "results"))]

\* the try/catch around the recall lookup of a compare pipeline
TryRecallCount(fetched) ==
  IF fetched.threw
  THEN [threw |-> FALSE, error |-> 0, recallCount |-> 0]
  ELSE [threw |-> FALSE, error |-> 0,
        recallCount |-> Len(ListOf(fetched.json, "results"))]

CompareRow(v, specs, recallCount) ==
  [vin |-> v,
   year |-> Get(specs, "Model Year"),
   make |-> Get(specs, "Make"),
   model |-> Get(specs, "Model"),
   trim |-> Get(specs, "Trim"),
   bodyClass |-> Get(specs, "Body Class"),
   engine |-> Get(specs, "Displacement (L)") \o <<"L", " ">>
              \o Get(specs, "Engine Number of Cylinders") \o <<"-", "c", "y", "l">>,
   fuelType |-> Get(specs, "Fuel Type - Primary"),
   manufacturer |-> Get(specs, "Manufacturer Name"),
   plantCountry |-> Get(specs, "Plant Country"),
   recallCount |-> recallCount]

NoRow == CompareRow(Undefined, EmptyRecord, 0)

\* Promise.all over n promises: the value of promise i goes to place i, the
\* first rejection rejects, the last fulfilment fulfils
PromiseAll(n) ==
  [state |-> "pending", values |-> [i \in 1..n |-> NoRow], remaining |-> n,
   reason |-> 0]

\* an aggregation that places each value where the next free place is
PromiseAllFulfilInArrivalOrder(all, i, value) ==
  [state |-> IF all.state = "pending" /\ all.remaining = 1 THEN "fulfilled"
             ELSE all.state,
   values |-> [all.values EXCEPT ![Len(all.values) - all.remaining + 1] = value],
   remaining |-> all.remaining - 1,
   reason |-> all.reason]

PromiseAllFulfil(all, i, value) ==
  [state |-> IF all.state = "pending" /\ all.remaining = 1 THEN "fulfilled"
             ELSE all.state,
   values |-> [all.values EXCEPT ![i] = value],
   remaining |-> all.remaining - 1,
   reason |-> all.reason]

\* an aggregation that waits for the other promises after a rejection
PromiseAllRejectIgnored(all, reason) == all

PromiseAllReject(all, reason) ==
  IF all.state = "pending"
  THEN [all EXCEPT !.state = "rejected", !.reason = reason]
  ELSE all

CompareOutput(results, now) == [comparison |-> results, comparedAt |-> now]

\* what a handler has settled with
Pending == [kind |-> "pending", output |-> NoBody, error |-> 0]

Returned(output) == [kind |-> "output", output |-> output, error |-> 0]

Thrown(error) == [kind |-> "error", output |-> NoBody, error |-> error]

Invalid == [kind |-> "invalid", output |-> NoBody, error |-> 0]

\* ------------------------------------------------------------------ state
Slots == {1, 2, 3}

VARIABLES
  op,        \* slot -> the entrypoint of its request, "none" before it arrives
  input,     \* slot -> ctx.input
  pc,        \* slot -> where the handler stands: idle, await, await2, done
  vin,       \* slot -> the local vin of decode-vin and recalls-by-vin
  specs,     \* slot -> the local specs of recalls-by-vin
  got,       \* slot -> the responses delivered to the handler, in order
  pipe,      \* slot -> the per-subject async functions of compare
  all,       \* slot -> the Promise.all of compare
  settled,   \* slot -> the subjects of compare in the order they settled
  result,    \* slot -> what the handler has settled with
  calls,     \* bag of the upstream calls issued
  clock,     \* the time, one tick per step
  stamp,     \* slot -> when the first call was issued, the last reply came
  raw,       \* cleanVinResults alone: its argument,
  idx,       \*   the index of the next item of the loop,
  cleaned    \*   and the record built so far

reqVars ==
  <<op, input, pc, vin, specs, got, pipe, all, settled, result, calls, clock, stamp>>

cleanVars == <<raw, idx, cleaned>>

vars ==
  <<op, input, pc, vin, specs, got, pipe, all, settled, result, calls, clock, stamp,
    raw, idx, cleaned>>

Call(r, i, url) == [slot |-> r, subject |-> i, url |-> url]

InitRequests ==
  /\ op = [r \in Slots |-> "none"]
  /\ input = [r \in Slots |-> [none |-> TRUE]]
  /\ pc = [r \in Slots |-> "idle"]
  /\ vin = [r \in Slots |-> Undefined]
  /\ specs = [r \in Slots |-> EmptyRecord]
  /\ got = [r \in Slots |-> <<>>]
  /\ pipe = [r \in Slots |-> <<>>]
  /\ all = [r \in Slots |-> PromiseAll(0)]
  /\ settled = [r \in Slots |-> <<>>]
  /\ result = [r \in Slots |-> Pending]
  /\ calls = EmptyBag
  /\ clock = 0
  /\ stamp = [r \in Slots |-> [first |-> 0, last |-> 0]]

Init ==
  /\ InitRequests
  /\ raw = <<>>
  /\ idx = 1
  /\ cleaned = EmptyRecord

\* a request arrives: the registry checks it against the schema
Arrive(r, key, in) ==
  /\ pc[r] = "idle"
  /\ op' = [op EXCEPT ![r] = key]
  /\ input' = [input EXCEPT ![r] = in]
  /\ clock' = clock + 1

\* the handler runs to its first await, with one call issued
FirstCall(r, url) ==
  /\ pc' = [pc EXCEPT ![r] = "await"]
  /\ calls' = calls (+) SetToBag({Call(r, 0, url)})
  /\ stamp' = [stamp EXCEPT ![r].first = clock + 1]

\* a reply is delivered to the handler
Reply(r, response) ==
  /\ got' = [got EXCEPT ![r] = Append(@, response)]
  /\ stamp' = [stamp EXCEPT ![r].last = clock + 1]
  /\ clock' = clock + 1

Settle(r, res) ==
  /\ pc' = [pc EXCEPT ![r] = "done"]
  /\ result' = [result EXCEPT ![r] = res]

\* a request that does not satisfy the input schema never reaches its handler
Reject(r) ==
  \E key \in EntryKeys : \E in \in Inputs(key) :
    /\ ~Valid(key, in)
    /\ Arrive(r, key, in)
    /\ Settle(r, Invalid)
    /\ UNCHANGED <<vin, specs, got, pipe, all, settled, calls, stamp>>
    /\ UNCHANGED cleanVars

\* ---- overview
OverviewCall(r) ==
  \E in \in Inputs("overview") :
    /\ Valid("overview", in)
    /\ Arrive(r, "overview", in)
    /\ FirstCall(r, AllMakesUrl)
    /\ UNCHANGED <<vin, specs, got, pipe, all, settled, result>>
    /\ UNCHANGED cleanVars

OverviewReply(r) ==
  /\ op[r] = "overview"
  /\ pc[r] = "await"
  /\ \E response \in MakesResponses :
       LET makes == fetchJSON(response) IN
       /\ Reply(r, response)
       /\ IF makes.threw
          THEN Settle(r, Thrown(makes.error))
          ELSE Settle(r, Returned(OverviewOutput(makes.json, clock + 1)))
  /\ UNCHANGED <<op, input, vin, specs, pipe, all, settled, calls>>
  /\ UNCHANGED cleanVars

\* ---- decode-vin
DecodeVinCall(r) ==
  \E in \in Inputs("decode-vin") :
    /\ Valid("decode-vin", in)
    /\ Arrive(r, "decode-vin", in)
    /\ vin' = [vin EXCEPT ![r] = toUpperCase(in.vin)]
    /\ FirstCall(r, DecodeUrl(toUpperCase(in.vin)))
    /\ UNCHANGED <<specs, got, pipe, all, settled, result>>
    /\ UNCHANGED cleanVars

\* the slot whose handler assigned vin last
LastAssigned ==
  CHOOSE r \in Slots :
    /\ vin[r] # Undefined
    /\ \A q \in Slots : vin[q] # Undefined => stamp[q].first <= stamp[r].first

\* a decode-vin whose vin is a variable of the module, not of the handler
DecodeVinReplyModuleVin(r) ==
  /\ op[r] = "decode-vin"
  /\ pc[r] = "await"
  /\ \E response \in DecodeResponses :
       LET data == fetchJSON(response) IN
       /\ Reply(r, response)
       /\ IF data.threw
          THEN Settle(r, Thrown(data.error))
          ELSE Settle(r, Returned(DecodeVinOutput(
                            vin[LastAssigned], cleanVinResults(data.json.Results),
                            clock + 1)))
  /\ UNCHANGED <<op, input, vin, specs, pipe, all, settled, calls>>
  /\ UNCHANGED cleanVars

\* a decode-vin that issues its call again when the reply is not ok
DecodeVinReplyRetrying(r) ==
  /\ op[r] = "decode-vin"
  /\ pc[r] = "await"
  /\ \E response \in DecodeResponses :
       LET data == fetchJSON(response) IN
       /\ Reply(r, response)
       /\ IF data.threw
          THEN /\ calls' = calls (+) SetToBag({Call(r, 0, DecodeUrl(vin[r]))})
               /\ UNCHANGED <<pc, result>>
          ELSE /\ Settle(r, Returned(DecodeVinOutput(
                                 vin[r], cleanVinResults(data.json.Results), clock + 1)))
               /\ UNCHANGED calls
  /\ UNCHANGED <<op, input, vin, specs, pipe, all, settled>>
  /\ UNCHANGED cleanVars

DecodeVinReply(r) ==
  /\ op[r] = "decode-vin"
  /\ pc[r] = "await"
  /\ \E response \in DecodeResponses :
       LET data == fetchJSON(response) IN
       /\ Reply(r, response)
       /\ IF data.threw
          THEN Settle(r, Thrown(data.error))
          ELSE Settle(r, Returned(DecodeVinOutput(
                            vin[r], cleanVinResults(data.json.Results), clock + 1)))
  /\ UNCHANGED <<op, input, vin, specs, pipe, all, settled, calls>>
  /\ UNCHANGED cleanVars

\* ---- recalls-by-vin
RecallsByVinCall(r) ==
  \E in \in Inputs("recalls-by-vin") :
    /\ Valid("recalls-by-vin", in)
    /\ Arrive(r, "recalls-by-vin", in)
    /\ vin' = [vin EXCEPT ![r] = toUpperCase(in.vin)]
    /\ FirstCall(r, DecodeUrl(toUpperCase(in.vin)))
    /\ UNCHANGED <<specs, got, pipe, all, settled, result>>
    /\ UNCHANGED cleanVars

\* phase 1 settles: the error propagates, or the identity is unresolved, or
\* the recall query is issued
RecallsByVinDecoded(r) ==
  /\ op[r] = "recalls-by-vin"
  /\ pc[r] = "await"
  /\ \E response \in DecodeResponses :
       LET decoded == fetchJSON(response)
           sp == cleanVinResults(decoded.json.Results)
       IN
       /\ Reply(r, response)
       /\ IF decoded.threw
          THEN /\ Settle(r, Thrown(decoded.error))
               /\ UNCHANGED <<specs, calls>>
          ELSE /\ specs' = [specs EXCEPT ![r] = sp]
               /\ IF IdentityMissing(sp)
                  THEN /\ Settle(r, Returned(UnresolvedOutput(vin[r])))
                       /\ UNCHANGED calls
                  ELSE /\ pc' = [pc EXCEPT ![r] = "await2"]
                       /\ calls' = calls (+) SetToBag({Call(r, 0,
                            RecallsByVehicleUrl(toLowerCase(Get(sp, "Make")),
                                                toLowerCase(Get(sp, "Model")),
                                                Get(sp, "Model Year")))})
                       /\ UNCHANGED result
  /\ UNCHANGED <<op, input, vin, pipe, all, settled>>
  /\ UNCHANGED cleanVars

\* a recalls-by-vin whose vin is a variable of the module, not of the handler
RecallsByVinRecalledModuleVin(r) ==
  /\ op[r] = "recalls-by-vin"
  /\ pc[r] = "await2"
  /\ \E response \in RecallResponses :
       LET looked == RecallLookup(response) IN
       /\ Reply(r, response)
       /\ IF looked.threw
          THEN Settle(r, Thrown(looked.error))
          ELSE Settle(r, Returned(RecallsOutput(
                            vin[LastAssigned], specs[r], looked.recalls, clock + 1)))
  /\ UNCHANGED <<op, input, vin, specs, pipe, all, settled, calls>>
  /\ UNCHANGED cleanVars

RecallsByVinRecalled(r) ==
  /\ op[r] = "recalls-by-vin"
  /\ pc[r] = "await2"
  /\ \E response \in RecallResponses :
       LET looked == RecallLookup(response) IN
       /\ Reply(r, response)
       /\ IF looked.threw
          THEN Settle(r, Thrown(looked.error))
          ELSE Settle(r, Returned(RecallsOutput(
                            vin[r], specs[r], looked.recalls, clock + 1)))
  /\ UNCHANGED <<op, input, vin, specs, pipe, all, settled, calls>>
  /\ UNCHANGED cleanVars

\* ---- models
ModelsCall(r) ==
  \E in \in Inputs("models") :
    /\ Valid("models", in)
    /\ Arrive(r, "models", in)
    /\ FirstCall(r, ModelsUrl(in.make))
    /\ UNCHANGED <<vin, specs, got, pipe, all, settled, result>>
    /\ UNCHANGED cleanVars

ModelsReply(r) ==
  /\ op[r] = "models"
  /\ pc[r] = "await"
  /\ \E response \in ModelsResponses :
       LET data == fetchJSON(response) IN
       /\ Reply(r, response)
       /\ IF data.threw
          THEN Settle(r, Thrown(data.error))
          ELSE Settle(r, Returned(ModelsOutput(input[r].make, data.json, clock + 1)))
  /\ UNCHANGED <<op, input, vin, specs, pipe, all, settled, calls>>
  /\ UNCHANGED cleanVars

\* ---- complaints
ComplaintsCall(r) ==
  \E in \in Inputs("complaints") :
    /\ Valid("complaints", in)
    /\ Arrive(r, "complaints", in)
    /\ FirstCall(r, ComplaintsUrl(in.make, in.model, in.year))
    /\ UNCHANGED <<vin, specs, got, pipe, all, settled, result>>
    /\ UNCHANGED cleanVars

ComplaintsReply(r) ==
  /\ op[r] = "complaints"
  /\ pc[r] = "await"
  /\ \E response \in ComplaintResponses :
       LET data == fetchJSON(response) IN
       /\ Reply(r, response)
       /\ IF data.threw
          THEN Settle(r, Thrown(data.error))
          ELSE Settle(r, Returned(ComplaintsOutput(input[r], data.json, clock + 1)))
  /\ UNCHANGED <<op, input, vin, specs, pipe, all, settled, calls>>
  /\ UNCHANGED cleanVars

\* ---- compare
\* the async function of subject i: at its decode, at its recall lookup,
\* returned with its row, or thrown
Pipeline(v) ==
  [pc |-> "decode", v |-> v, specs |-> EmptyRecord, recallCount |-> 0,
   decoded |-> NoResponse, recalled |-> NoResponse]

\* a compare that starts the recall lookup of each subject next to its decode
CompareCallBothAtOnce(r) ==
  \E in \in Inputs("compare") :
    /\ Valid("compare", in)
    /\ Arrive(r, "compare", in)
    /\ pipe' = [pipe EXCEPT ![r] =
                  [i \in 1..Len(in.vins) |-> Pipeline(toUpperCase(in.vins[i]))]]
    /\ all' = [all EXCEPT ![r] = PromiseAll(Len(in.vins))]
    /\ pc' = [pc EXCEPT ![r] = "await"]
    /\ calls' = calls (+) SetToBag({Call(r, i, DecodeUrl(toUpperCase(in.vins[i]))) :
                                      i \in 1..Len(in.vins)})
                      (+) SetToBag({Call(r, i, RecallsByVinUrl(toUpperCase(in.vins[i]))) :
                                      i \in 1..Len(in.vins)})
    /\ stamp' = [stamp EXCEPT ![r].first = clock + 1]
    /\ UNCHANGED <<vin, specs, got, settled, result>>
    /\ UNCHANGED cleanVars

\* vins.map(...) starts every async function, each up to its decode
CompareCall(r) ==
  \E in \in Inputs("compare") :
    /\ Valid("compare", in)
    /\ Arrive(r, "compare", in)
    /\ pipe' = [pipe EXCEPT ![r] =
                  [i \in 1..Len(in.vins) |-> Pipeline(toUpperCase(in.vins[i]))]]
    /\ all' = [all EXCEPT ![r] = PromiseAll(Len(in.vins))]
    /\ pc' = [pc EXCEPT ![r] = "await"]
    /\ calls' = calls (+) SetToBag({Call(r, i, DecodeUrl(toUpperCase(in.vins[i]))) :
                                      i \in 1..Len(in.vins)})
    /\ stamp' = [stamp EXCEPT ![r].first = clock + 1]
    /\ UNCHANGED <<vin, specs, got, settled, result>>
    /\ UNCHANGED cleanVars

\* the Promise.all has settled: the handler returns or throws
CompareSettle(r, before, after) ==
  IF before.state = "pending" /\ after.state = "fulfilled"
  THEN Settle(r, Returned(CompareOutput(after.values, clock + 1)))
  ELSE IF before.state = "pending" /\ after.state = "rejected"
  THEN Settle(r, Thrown(after.reason))
  ELSE UNCHANGED <<pc, result>>

\* the decode of subject i settles
CompareDecoded(r, i) ==
  /\ op[r] = "compare"
  /\ i \in DOMAIN pipe[r]
  /\ pipe[r][i].pc = "decode"
  /\ \E response \in DecodeResponses :
       LET decoded == fetchJSON(response)
           p == pipe[r][i]
       IN
       /\ stamp' = [stamp EXCEPT ![r].last = clock + 1]
       /\ clock' = clock + 1
       /\ IF decoded.threw
          THEN /\ pipe' = [pipe EXCEPT ![r][i] =
                             [p EXCEPT !.pc = "thrown", !.decoded = response]]
               /\ all' = [all EXCEPT ![r] = PromiseAllReject(@, decoded.error)]
               /\ CompareSettle(r, all[r], PromiseAllReject(all[r], decoded.error))
               /\ settled' = [settled EXCEPT ![r] = Append(@, i)]
               /\ UNCHANGED calls
          ELSE /\ pipe' = [pipe EXCEPT ![r][i] =
                             [p EXCEPT !.pc = "recall", !.decoded = response,
                                       !.specs = cleanVinResults(decoded.json.Results)]]
               /\ calls' = calls (+) SetToBag({Call(r, i, RecallsByVinUrl(p.v))})
               /\ UNCHANGED <<all, settled, pc, result>>
  /\ UNCHANGED <<op, input, vin, specs, got>>
  /\ UNCHANGED cleanVars

\* the recall lookup of subject i settles
CompareRecalled(r, i) ==
  /\ op[r] = "compare"
  /\ i \in DOMAIN pipe[r]
  /\ pipe[r][i].pc = "recall"
  /\ \E response \in AuxRecallResponses :
       LET tried == TryRecallCount(fetchJSON(response))
           p == pipe[r][i]
           row == CompareRow(p.v, p.specs, tried.recallCount)
           after == IF tried.threw
                    THEN PromiseAllReject(all[r], tried.error)
                    ELSE PromiseAllFulfil(all[r], i, row)
       IN
       /\ stamp' = [stamp EXCEPT ![r].last = clock + 1]
       /\ clock' = clock + 1
       /\ pipe' = [pipe EXCEPT ![r][i] =
                     [p EXCEPT !.pc = IF tried.threw THEN "thrown" ELSE "returned",
                               !.recalled = response,
                               !.recallCount = tried.recallCount]]
       /\ all' = [all EXCEPT ![r] = after]
       /\ settled' = [settled EXCEPT ![r] = Append(@, i)]
       /\ CompareSettle(r, all[r], after)
  /\ UNCHANGED <<op, input, vin, specs, got, calls>>
  /\ UNCHANGED cleanVars

\* ---------------------------------------------------------- specification
\* one request
Serve(r) ==
  \/ Reject(r)
  \/ OverviewCall(r)
  \/ OverviewReply(r)
  \/ DecodeVinCall(r)
  \/ DecodeVinReply(r)
  \/ RecallsByVinCall(r)
  \/ RecallsByVinDecoded(r)
  \/ RecallsByVinRecalled(r)
  \/ ModelsCall(r)
  \/ ModelsReply(r)
  \/ ComplaintsCall(r)
  \/ ComplaintsReply(r)
  \/ CompareCall(r)
  \/ \E i \in 1..MAX_VINS : CompareDecoded(r, i)
  \/ \E i \in 1..MAX_VINS : CompareRecalled(r, i)

Next == Serve(1)

Spec == Init /\ [][Next]_vars

\* ---- one request whose every issued call is eventually answered
\* the reply of the one call a handler awaits outside compare
AwaitedReply(r) ==
  \/ OverviewReply(r)
  \/ DecodeVinReply(r)
  \/ RecallsByVinDecoded(r)
  \/ RecallsByVinRecalled(r)
  \/ ModelsReply(r)
  \/ ComplaintsReply(r)

\* a reply to one of the calls outstanding
SomeReply ==
  \/ AwaitedReply(1)
  \/ \E i \in 1..MAX_VINS : CompareDecoded(1, i)
  \/ \E i \in 1..MAX_VINS : CompareRecalled(1, i)

\* while calls are outstanding one of them is eventually answered, which
\* is the least that "every issued call eventually completes" gives
Answered == WF_vars(SomeReply)

SpecFair == Init /\ [][Next]_vars /\ Answered

\* ---- decode-vin requests in every slot, interleaved at their awaits
NextIdentify == \E r \in Slots : DecodeVinCall(r) \/ DecodeVinReply(r)

SpecIdentify == Init /\ [][NextIdentify]_vars

\* ---- two requests at once: a recalls-by-vin or a compare of two subjects,
\* and a decode-vin
NextConcurrent ==
  \/ RecallsByVinCall(1)
  \/ RecallsByVinDecoded(1)
  \/ RecallsByVinRecalled(1)
  \/ CompareCall(1) /\ Len(input'[1].vins) = MIN_VINS
  \/ \E i \in 1..MAX_VINS : CompareDecoded(1, i)
  \/ \E i \in 1..MAX_VINS : CompareRecalled(1, i)
  \/ DecodeVinCall(2)
  \/ DecodeVinReply(2)

SpecConcurrent == Init /\ [][NextConcurrent]_vars

\* ---- cleanVinResults alone, one item of its loop per step
Variables == {"Make", "Model"}

Values == {EmptyString, NotApplicable, NotApplicableLower, Honda, Tesla}

RawLists ==
  UNION {SeqsOfLen({Pair(k, v) : k \in Variables, v \in Values}, n) : n \in 0..MaxPairs}

InitClean ==
  /\ InitRequests
  /\ raw \in RawLists
  /\ idx = 1
  /\ cleaned = EmptyRecord

CleanStep ==
  /\ idx <= Len(raw)
  /\ cleaned' = CleanItem(cleaned, raw[idx])
  /\ idx' = idx + 1
  /\ UNCHANGED raw
  /\ UNCHANGED reqVars

NextClean == CleanStep

SpecClean == InitClean /\ [][NextClean]_vars

\* ------------------------------------------------------------ properties
Placeholders == {EmptyString, NotApplicable}

RecallCalls(r) ==
  {c \in BagToSet(calls) : c.slot = r /\ c.url.endpoint = "recalls/recallsByVehicle"}

CompareReturned(r) == op[r] = "compare" /\ result[r].kind = "output"

\* C1: a compare that returns has one row per input identification number,
\* and row i carries the upper-cased number of input i and the decode data
\* delivered for input i, in whatever order the upstream calls completed.
C1_CompareKeepsInputOrder ==
  \A r \in Slots :
    CompareReturned(r) =>
      LET rows == result[r].output.comparison
          vins == input[r].vins
      IN /\ Len(rows) = Len(vins)
         /\ Len(vins) \in MIN_VINS..MAX_VINS
         /\ \A i \in 1..Len(vins) :
              /\ rows[i].vin = toUpperCase(vins[i])
              /\ rows[i] = CompareRow(toUpperCase(vins[i]),
                                      cleanVinResults(pipe[r][i].decoded.body.Results),
                                      rows[i].recallCount)

\* two different numbers with different decodes, the second settled first
C1_Witness ==
  \E r \in Slots :
    /\ CompareReturned(r)
    /\ settled[r] = <<2, 1>>
    /\ toUpperCase(input[r].vins[1]) # toUpperCase(input[r].vins[2])
    /\ input[r].vins[1] # toUpperCase(input[r].vins[1])
    /\ pipe[r][1].decoded # pipe[r][2].decoded
    /\ result[r].output.comparison[1].make = Honda
    /\ result[r].output.comparison[2].make = Tesla

\* the recall count the reply of a lookup stands for, 0 for a failed lookup
CountOf(response) ==
  IF Ok(response) THEN Len(ListOf(response.body, "results")) ELSE 0

\* C2: when every decode of a compare has succeeded and every recall lookup
\* has settled, the compare has returned, whichever lookups failed; the row
\* of a subject whose lookup failed has recallCount 0, and every row is the
\* one its own decode and its own lookup give.
C2_RecallFailureIsolated ==
  \A r \in Slots :
    ( /\ op[r] = "compare"
      /\ pipe[r] # <<>>
      /\ \A i \in DOMAIN pipe[r] :
           Ok(pipe[r][i].decoded) /\ pipe[r][i].recalled.status # 0 ) =>
      /\ result[r].kind = "output"
      /\ \A i \in DOMAIN pipe[r] :
           /\ ~Ok(pipe[r][i].recalled) => result[r].output.comparison[i].recallCount = 0
           /\ result[r].output.comparison[i] =
                CompareRow(toUpperCase(input[r].vins[i]),
                           cleanVinResults(pipe[r][i].decoded.body.Results),
                           CountOf(pipe[r][i].recalled))

\* the lookup of the first subject failed, that of the second found recalls
C2_Witness ==
  \E r \in Slots :
    /\ CompareReturned(r)
    /\ ~Ok(pipe[r][1].recalled)
    /\ Ok(pipe[r][2].recalled)
    /\ result[r].output.comparison[1].recallCount = 0
    /\ result[r].output.comparison[2].recallCount = 2

\* C3: as soon as the decode of one subject of a compare has failed with a
\* non-success status the compare has failed, and it never returns rows,
\* whatever the other subjects' calls do.
C3_DecodeFailureFailsCompare ==
  \A r \in Slots :
    ( /\ op[r] = "compare"
      /\ \E i \in DOMAIN pipe[r] :
           pipe[r][i].decoded.status # 0 /\ ~Ok(pipe[r][i].decoded) ) =>
      /\ result[r].kind = "error"
      /\ result[r].output = NoBody

\* one decode failed, the other subject's decode and lookup succeeded
C3_Witness ==
  \E r \in Slots :
    /\ op[r] = "compare"
    /\ result[r].kind = "error"
    /\ ~Ok(pipe[r][1].decoded) /\ pipe[r][1].decoded.status # 0
    /\ Ok(pipe[r][2].decoded)
    /\ Ok(pipe[r][2].recalled)
    /\ pipe[r][2].pc = "returned"

IdentityKeys == {"Make", "Model", "Model Year"}

\* C4: in recalls-by-vin, once the decode has succeeded with a cleaned spec
\* that lacks Make, Model or Model Year, the handler has returned recallCount
\* 0 and no recalls, and no recall query is issued; a recall query is only
\* ever issued after a decode that gave all three.
C4_UnresolvedIdentityShortCircuits ==
  \A r \in Slots :
    op[r] = "recalls-by-vin" =>
      /\ RecallCalls(r) # {} =>
           /\ Len(got[r]) >= 1
           /\ Ok(got[r][1])
           /\ IdentityKeys \subseteq DOMAIN cleanVinResults(got[r][1].body.Results)
      /\ ( /\ Len(got[r]) >= 1
           /\ Ok(got[r][1])
           /\ ~(IdentityKeys \subseteq DOMAIN cleanVinResults(got[r][1].body.Results)) ) =>
           /\ result[r].kind = "output"
           /\ result[r].output.recallCount = 0
           /\ result[r].output.recalls = <<>>
           /\ Len(got[r]) = 1
           /\ RecallCalls(r) = {}

\* the decode gave a make and a model and no model year
C4_Witness ==
  \E r \in Slots :
    /\ op[r] = "recalls-by-vin"
    /\ Len(got[r]) = 1
    /\ Ok(got[r][1])
    /\ DOMAIN cleanVinResults(got[r][1].body.Results) \cap IdentityKeys = {"Make", "Model"}
    /\ result[r].kind = "output"
    /\ result[r].output.recallCount = 0

C6_FirstCallFailurePropagates ==
  \A r \in Slots :
    ( /\ op[r] \in {"overview", "decode-vin", "models", "complaints", "recalls-by-vin"}
      /\ Len(got[r]) >= 1
      /\ ~Ok(got[r][1]) ) =>
      /\ result[r].kind = "error"
      /\ result[r].error = got[r][1].status
      /\ result[r].output = NoBody
      /\ Len(got[r]) = 1
      /\ RecallCalls(r) = {}

C6_Witness ==
  \E r \in Slots :
    /\ op[r] = "recalls-by-vin"
    /\ Len(got[r]) = 1
    /\ got[r][1].status = 500
    /\ result[r].kind = "error"
    /\ pc[r] = "done"

\* the loop of cleanVinResults has run to its end: cleaned is what it returns
CleanDone == idx > Len(raw)

\* the pairs of Variable k, among those the loop has passed, whose Value is
\* neither '' nor 'Not Applicable'
KeptPairs(k) ==
  {i \in 1..(idx - 1) : raw[i].Variable = k /\ raw[i].Value \notin Placeholders}

Last(S) == CHOOSE i \in S : \A j \in S : j <= i

NoRepeatedVariable ==
  \A i, j \in 1..Len(raw) : i # j => raw[i].Variable # raw[j].Variable

\* C7 as stated: the result of cleanVinResults has no key that a pair of the
\* list carries with the value '' or 'Not Applicable', and has every pair
\* with another value as Variable -> Value.
C7_AsStated ==
  CleanDone =>
    \A i \in 1..Len(raw) :
      IF raw[i].Value \in Placeholders
      THEN raw[i].Variable \notin DOMAIN cleaned
      ELSE Get(cleaned, raw[i].Variable) = raw[i].Value

\* C7, amended: cleanVinResults maps a Variable exactly when some pair with
\* that Variable has a Value other than '' and 'Not Applicable', and maps it
\* to the unchanged Value of the last such pair (no other value is filtered);
\* for a list in which no Variable occurs twice this is the claim as stated.
C7_CleanKeepsLastKeptPair ==
  /\ DOMAIN cleaned = {k \in {raw[i].Variable : i \in 1..Len(raw)} : KeptPairs(k) # {}}
  /\ \A k \in DOMAIN cleaned : cleaned[k] = raw[Last(KeptPairs(k))].Value
  /\ (CleanDone /\ NoRepeatedVariable) =>
       \A i \in 1..Len(raw) :
         IF raw[i].Value \in Placeholders
         THEN raw[i].Variable \notin DOMAIN cleaned
         ELSE Get(cleaned, raw[i].Variable) = raw[i].Value

\* a Variable with a kept pair followed by a pair of value '', and a pair
\* whose value is another placeholder string
C7_Witness ==
  /\ CleanDone
  /\ \E i, j \in 1..Len(raw) :
       /\ i < j
       /\ raw[i].Variable = raw[j].Variable
       /\ raw[i].Value = Honda
       /\ raw[j].Value = EmptyString
       /\ cleaned[raw[i].Variable] = Honda
  /\ \E k \in DOMAIN cleaned : cleaned[k] = NotApplicableLower

\* C8: the recall list of recalls-by-vin and the complaint list of complaints
\* have min(L, 20) entries for an upstream list of L, and entry i is made of
\* upstream entry i.
C8_ListsCappedInOrder ==
  \A r \in Slots :
    /\ ( /\ op[r] = "recalls-by-vin"
         /\ Len(got[r]) = 2
         /\ Ok(got[r][2]) ) =>
         LET upstream == ListOf(got[r][2].body, "results")
             out == result[r].output.recalls
         IN /\ result[r].kind = "output"
            /\ Len(out) = Min(Len(upstream), LIST_CAP)
            /\ \A i \in 1..Len(out) :
                 /\ out[i].campaignNumber = upstream[i].NHTSACampaignNumber
                 /\ out[i].component = upstream[i].Component
                 /\ out[i].summary = upstream[i].Summary
                 /\ out[i].consequence = upstream[i].Consequence
                 /\ out[i].remedy = upstream[i].Remedy
                 /\ out[i].manufacturer = upstream[i].Manufacturer
    /\ ( /\ op[r] = "complaints"
         /\ Len(got[r]) = 1
         /\ Ok(got[r][1]) ) =>
         LET upstream == ListOf(got[r][1].body, "results")
             out == result[r].output.complaints
         IN /\ result[r].kind = "output"
            /\ Len(out) = Min(Len(upstream), LIST_CAP)
            /\ \A i \in 1..Len(out) :
                 /\ out[i].id = upstream[i].odiNumber
                 /\ out[i].component = upstream[i].components
                 /\ out[i].crash = upstream[i].crash
                 /\ out[i].fire = upstream[i].fire
                 /\ out[i].injuries = upstream[i].injuries
                 /\ out[i].dateReceived = upstream[i].dateOfIncident

\* an upstream recall list of more than 20 entries in descending order
C8_Witness ==
  \E r \in Slots :
    /\ op[r] = "recalls-by-vin"
    /\ result[r].kind = "output"
    /\ Len(got[r]) = 2
    /\ Ok(got[r][2])
    /\ Len(ListOf(got[r][2].body, "results")) > LIST_CAP
    /\ Len(result[r].output.recalls) = LIST_CAP
    /\ result[r].output.recalls[1].campaignNumber
         = Len(ListOf(got[r][2].body, "results"))
    /\ result[r].output.recalls[LIST_CAP].campaignNumber
         = Len(ListOf(got[r][2].body, "results")) + 1 - LIST_CAP

\* C9: the summary of every complaint returned is the first min(len, 500)
\* characters of the upstream summary of that complaint: cut to exactly 500
\* when longer, unchanged when not.
C9_SummaryCapped ==
  \A r \in Slots :
    ( /\ op[r] = "complaints"
      /\ result[r].kind = "output" ) =>
      LET upstream == ListOf(got[r][1].body, "results")
          out == result[r].output.complaints
      IN \A i \in 1..Len(out) :
           LET s == upstream[i].summary
               t == out[i].summary
           IN IF s = Undefined THEN t = Undefined
              ELSE /\ Len(t) = Min(Len(s), SUMMARY_CAP)
                   /\ \A j \in 1..Len(t) : t[j] = s[j]
                   /\ Len(s) <= SUMMARY_CAP => t = s

\* one summary longer than 500 characters cut to 500, one shorter unchanged
C9_Witness ==
  \E r \in Slots :
    /\ op[r] = "complaints"
    /\ result[r].kind = "output"
    /\ Len(result[r].output.complaints) >= 2
    /\ \E i \in 1..Len(result[r].output.complaints) :
         /\ got[r][1].body.results[i].summary # Undefined
         /\ Len(got[r][1].body.results[i].summary) > SUMMARY_CAP
         /\ Len(result[r].output.complaints[i].summary) = SUMMARY_CAP
    /\ \E i \in 1..Len(result[r].output.complaints) :
         /\ got[r][1].body.results[i].summary # Undefined
         /\ Len(got[r][1].body.results[i].summary) \in 1..(SUMMARY_CAP - 1)
         /\ result[r].output.complaints[i].summary = got[r][1].body.results[i].summary

\* C10: when the decode of decode-vin has come back with a success status
\* the handler has returned, with isValid true exactly when the cleaned
\* spec's "Error Code" is "0" and with the cleaned spec's "Error Text" as
\* errorMessage.
C10_DecodeErrorsAreData ==
  \A r \in Slots :
    ( /\ op[r] = "decode-vin"
      /\ Len(got[r]) = 1
      /\ Ok(got[r][1]) ) =>
      LET sp == cleanVinResults(got[r][1].body.Results) IN
      /\ result[r].kind = "output"
      /\ result[r].output.vin = toUpperCase(input[r].vin)
      /\ result[r].output.isValid <=> ("Error Code" \in DOMAIN sp /\ sp["Error Code"] = Zero)
      /\ result[r].output.errorMessage
           = IF "Error Text" \in DOMAIN sp THEN sp["Error Text"] ELSE Undefined

\* the upstream reports error code 1 with its text
C10_Witness ==
  \E r \in Slots :
    /\ op[r] = "decode-vin"
    /\ result[r].kind = "output"
    /\ \E i \in 1..Len(got[r][1].body.Results) :
         got[r][1].body.Results[i] = Pair("Error Code", One)
    /\ result[r].output.isValid = FALSE
    /\ result[r].output.errorMessage = TextBad

LookupKeys == {"decode-vin", "recalls-by-vin", "models", "complaints", "compare"}

\* the name of the timestamp field of the output of an entrypoint
TimestampField(key) == IF key = "compare" THEN "comparedAt" ELSE "fetchedAt"

\* C11 as stated: every output of decode-vin, recalls-by-vin (the unresolved
\* identity included), models, complaints and compare carries its timestamp
\* field, and the timestamp is the time the last reply of the request came,
\* later than the time its first call was issued.
C11_AsStated ==
  \A r \in Slots :
    (op[r] \in LookupKeys /\ result[r].kind = "output") =>
      /\ TimestampField(op[r]) \in DOMAIN result[r].output
      /\ result[r].output[TimestampField(op[r])] = stamp[r].last
      /\ result[r].output[TimestampField(op[r])] > stamp[r].first

\* the upstream calls issued for the request of slot r
CallsOf(r) == {c \in BagToSet(calls) : c.slot = r}

\* C12: a compare request with fewer than 2 or more than 5 identification
\* numbers is rejected by the schema: its handler never starts, no pipeline
\* exists for it, and no decode or recall call is ever issued for it.
C12_BadCountNeverOrchestrated ==
  \A r \in Slots :
    (op[r] = "compare" /\ Len(input[r].vins) \notin MIN_VINS..MAX_VINS) =>
      /\ result[r] = Invalid
      /\ pc[r] = "done"
      /\ pipe[r] = <<>>
      /\ all[r] = PromiseAll(0)
      /\ settled[r] = <<>>
      /\ CallsOf(r) = {}
      /\ stamp[r].first = 0

\* six well-formed identification numbers
C12_Witness ==
  \E r \in Slots :
    /\ op[r] = "compare"
    /\ Len(input[r].vins) = MAX_VINS + 1
    /\ \A i \in 1..Len(input[r].vins) : Len(input[r].vins[i]) = VIN_LENGTH
    /\ result[r] = Invalid
    /\ calls = EmptyBag

\* how many calls the request of slot r has issued for subject i to an endpoint
CallCount(r, i, endpoint) ==
  LET these == {c \in CallsOf(r) : c.subject = i /\ c.url.endpoint = endpoint}
  IN BagCardinality([c \in these |-> calls[c]])

\* how many calls the request of slot r has issued in all
TotalCalls(r) == BagCardinality([c \in CallsOf(r) |-> calls[c]])

\* C13: no call is issued twice.  A started overview, decode-vin, models or
\* complaints has issued exactly one call, whatever the reply; recalls-by-vin
\* exactly one decode and at most one recall query; compare over n subjects
\* exactly one decode and at most one recall lookup per subject, at most 2n
\* calls in all.
C13_NoCallRepeated ==
  \A r \in Slots :
    /\ result[r] = Invalid => TotalCalls(r) = 0
    /\ (op[r] \in {"overview", "decode-vin", "models", "complaints"}
          /\ result[r] # Invalid) => TotalCalls(r) = 1
    /\ (op[r] = "recalls-by-vin" /\ result[r] # Invalid) =>
         /\ CallCount(r, 0, "vpic/decodevin") = 1
         /\ CallCount(r, 0, "recalls/recallsByVehicle") <= 1
         /\ TotalCalls(r) <= 2
    /\ (op[r] = "compare" /\ result[r] # Invalid) =>
         /\ \A i \in 1..Len(input[r].vins) :
              /\ CallCount(r, i, "vpic/decodevin") = 1
              /\ CallCount(r, i, "recalls/recallsByVehicle") <= 1
         /\ TotalCalls(r) <= 2 * Len(input[r].vins)
         /\ \A c \in CallsOf(r) : c.subject \in 1..Len(input[r].vins)

\* a compare of the same number twice, every recall lookup failed: 2n calls
C13_Witness ==
  \E r \in Slots :
    /\ op[r] = "compare"
    /\ Len(input[r].vins) = 2
    /\ input[r].vins[1] = input[r].vins[2]
    /\ TotalCalls(r) = 2 * Len(input[r].vins)
    /\ \A i \in DOMAIN pipe[r] : pipe[r][i].recalled.status = 500
    /\ result[r].kind = "output"

NoLowerCase(s) == \A i \in 1..Len(s) : ~IsIn(LowerCaseLetters, s[i])

NoUpperCase(s) == \A i \in 1..Len(s) : ~IsIn(UpperCaseLetters, s[i])

HondaLower == <<"h","o","n","d","a">>

AccordLower == <<"a","c","c","o","r","d">>

\* C14: every decode call and every recall lookup by identification number
\* carries the upper-cased input number, and so does every returned vin
\* field; the recall query of recalls-by-vin carries the lower-cased Make and
\* Model of the decode and its Model Year (HONDA, Accord, 2003 gives honda,
\* accord, 2003); models and complaints put make and model in their URL in
\* the case given, and every output field shows make and model in the case
\* the input or the decode gave.
C14_CaseHandling ==
  \A r \in Slots :
    /\ (op[r] \in {"decode-vin", "recalls-by-vin"} /\ result[r] # Invalid) =>
         LET upper == toUpperCase(input[r].vin) IN
         /\ NoLowerCase(upper)
         /\ \A c \in CallsOf(r) : c.url.endpoint = "vpic/decodevin" => c.url.vin = upper
         /\ result[r].kind = "output" => result[r].output.vin = upper
    /\ (op[r] = "compare" /\ result[r] # Invalid) =>
         \A i \in 1..Len(input[r].vins) :
           LET upper == toUpperCase(input[r].vins[i]) IN
           /\ NoLowerCase(upper)
           /\ \A c \in CallsOf(r) : c.subject = i => c.url.vin = upper
           /\ result[r].kind = "output" =>
                LET row == result[r].output.comparison[i]
                    sp == cleanVinResults(pipe[r][i].decoded.body.Results)
                IN /\ row.vin = upper
                   /\ row.make = Get(sp, "Make")
                   /\ row.model = Get(sp, "Model")
    /\ op[r] = "recalls-by-vin" =>
         /\ \A c \in RecallCalls(r) :
              LET sp == cleanVinResults(got[r][1].body.Results) IN
              /\ c.url.make = encodeURIComponent(toLowerCase(sp["Make"]))
              /\ c.url.model = encodeURIComponent(toLowerCase(sp["Model"]))
              /\ NoUpperCase(toLowerCase(sp["Make"]))
              /\ NoUpperCase(toLowerCase(sp["Model"]))
              /\ c.url.modelYear = sp["Model Year"]
              /\ c.url.vin = <<>>
              /\ (sp["Make"] = Honda /\ sp["Model"] = Accord) =>
                   c.url.make = HondaLower /\ c.url.model = AccordLower
         /\ (result[r].kind = "output" /\ Len(got[r]) = 2) =>
              LET sp == cleanVinResults(got[r][1].body.Results) IN
              result[r].output.vehicle =
                sp["Model Year"] \o <<" ">> \o sp["Make"] \o <<" ">> \o sp["Model"]
    /\ (op[r] = "decode-vin" /\ result[r].kind = "output") =>
         LET sp == cleanVinResults(got[r][1].body.Results) IN
         /\ result[r].output.vehicle.make = Get(sp, "Make")
         /\ result[r].output.vehicle.model = Get(sp, "Model")
    /\ op[r] = "models" =>
         /\ \A c \in CallsOf(r) : c.url.make = encodeURIComponent(input[r].make)
         /\ result[r].kind = "output" => result[r].output.make = input[r].make
    /\ op[r] = "complaints" =>
         /\ \A c \in CallsOf(r) :
              /\ c.url.make = encodeURIComponent(input[r].make)
              /\ c.url.model = encodeURIComponent(input[r].model)
         /\ result[r].kind = "output" =>
              result[r].output.vehicle =
                NumberToString(input[r].year) \o <<" ">> \o input[r].make
                  \o <<" ">> \o input[r].model

\* a number given in lower case whose decode gives HONDA, Accord, 2003: the
\* recall query asks for honda, accord, 2003 and the output shows the
\* upper-cased number and "2003 HONDA Accord"
C14_Witness ==
  \E r \in Slots :
    /\ op[r] = "recalls-by-vin"
    /\ input[r].vin = VinHonda
    /\ toUpperCase(VinHonda) # VinHonda
    /\ result[r].kind = "output"
    /\ Len(got[r]) = 2
    /\ \E c \in RecallCalls(r) :
         c.url.make = HondaLower /\ c.url.model = AccordLower /\ c.url.modelYear = Year2003
    /\ result[r].output.vin = toUpperCase(VinHonda)
    /\ result[r].output.vehicle = Year2003 \o <<" ">> \o Honda \o <<" ">> \o Accord

\* what a handler has settled with, its timestamp left out
Untimed(res) ==
  IF res.kind = "output"
  THEN [res EXCEPT !.output =
          [k \in (DOMAIN res.output) \ {"fetchedAt", "comparedAt"} |-> res.output[k]]]
  ELSE res

\* C15: two decode-vin requests with the same identification number that
\* were delivered the same upstream response have settled alike, the
\* timestamp set aside, whatever other request ran before, between or
\* during them.
C15_DecodeVinIdempotent ==
  \A r, q \in Slots :
    ( /\ op[r] = "decode-vin" /\ op[q] = "decode-vin"
      /\ input[r] = input[q]
      /\ pc[r] = "done" /\ pc[q] = "done"
      /\ got[r] = got[q] ) =>
      Untimed(result[r]) = Untimed(result[q])

\* two requests for the same number given the same decode, with a request
\* for another number issued and answered between them and one more issued
\* while the second was waiting
C15_Witness ==
  \E r, q, o \in Slots :
    /\ r # q
    /\ op[r] = "decode-vin" /\ op[q] = "decode-vin" /\ op[o] = "decode-vin"
    /\ input[r] = input[q]
    /\ input[o] # input[r]
    /\ got[r] = got[q]
    /\ result[r].kind = "output" /\ result[q].kind = "output"
    /\ stamp[r].last < stamp[o].first
    /\ stamp[q].first < stamp[o].first
    /\ stamp[o].last < stamp[q].last
    /\ result[r].output.fetchedAt # result[q].output.fetchedAt
    /\ pc[o] = "done"

\* the subjects of the compare of slot r whose decode has failed, in the
\* order they settled
FailedDecodes(r) ==
  SelectSeq(settled[r], LAMBDA i : pipe[r][i].decoded.status # 0 /\ ~Ok(pipe[r][i].decoded))

\* what the request of slot r settles with when it runs alone and its calls
\* are answered with the replies delivered to it so far
Alone(r) ==
  LET key == op[r]
      in == input[r]
  IN
  IF key = "none" THEN Pending
  ELSE IF ~Valid(key, in) THEN Invalid
  ELSE IF key = "compare"
  THEN IF FailedDecodes(r) # <<>>
       THEN Thrown(pipe[r][FailedDecodes(r)[1]].decoded.status)
       ELSE IF \A i \in 1..Len(in.vins) : pipe[r][i].recalled.status # 0
       THEN Returned(CompareOutput(
              [i \in 1..Len(in.vins) |->
                 CompareRow(toUpperCase(in.vins[i]),
                            cleanVinResults(pipe[r][i].decoded.body.Results),
                            CountOf(pipe[r][i].recalled))], 0))
       ELSE Pending
  ELSE IF got[r] = <<>> THEN Pending
  ELSE IF ~Ok(got[r][1]) THEN Thrown(got[r][1].status)
  ELSE IF key = "overview" THEN Returned(OverviewOutput(got[r][1].body, 0))
  ELSE IF key = "models" THEN Returned(ModelsOutput(in.make, got[r][1].body, 0))
  ELSE IF key = "complaints" THEN Returned(ComplaintsOutput(in, got[r][1].body, 0))
  ELSE LET sp == cleanVinResults(got[r][1].body.Results) IN
       IF key = "decode-vin" THEN Returned(DecodeVinOutput(toUpperCase(in.vin), sp, 0))
       ELSE IF ~(IdentityKeys \subseteq DOMAIN sp)
       THEN Returned(UnresolvedOutput(toUpperCase(in.vin)))
       ELSE IF Len(got[r]) = 1 THEN Pending
       ELSE Returned(RecallsOutput(toUpperCase(in.vin), sp,
                                   IF Ok(got[r][2]) THEN ListOf(got[r][2].body, "results")
                                   ELSE <<>>, 0))

\* C16: whatever another request does in between, a request has settled
\* with what it settles with alone on the replies delivered to it, the
\* timestamp set aside.
C16_RequestsDoNotInterfere ==
  \A r \in Slots : Untimed(result[r]) = Untimed(Alone(r))

\* a recalls-by-vin that has returned its recalls, with a decode-vin for
\* another number issued after its decode call and answered before its
\* recall query was
C16_Witness ==
  /\ op[1] = "recalls-by-vin"
  /\ op[2] = "decode-vin"
  /\ toUpperCase(input[1].vin) # toUpperCase(input[2].vin)
  /\ result[1].kind = "output"
  /\ result[1].output.recallCount > 0
  /\ result[2].kind = "output"
  /\ got[1][1] # got[2][1]
  /\ stamp[1].first < stamp[2].first
  /\ stamp[2].last < stamp[1].last

\* C17: in a compare, the recall lookup of a subject has been issued exactly
\* when the decode of that same subject has come back with success: not
\* before its decode has settled, never when its decode failed, and whatever
\* the decodes of the other subjects have done; a subject whose decode is
\* outstanding can still have it delivered after the compare has failed.
C17_RecallLookupFollowsOwnDecode ==
  \A r \in Slots :
    (op[r] = "compare" /\ result[r] # Invalid) =>
      \A i \in 1..Len(input[r].vins) :
        /\ CallCount(r, i, "recalls/recallsByVehicle")
             = (IF Ok(pipe[r][i].decoded) THEN 1 ELSE 0)
        /\ pipe[r][i].pc = "decode" =>
             /\ pipe[r][i].decoded = NoResponse
             /\ ENABLED CompareDecoded(r, i)
        /\ pipe[r][i].pc = "recall" => Ok(pipe[r][i].decoded)

\* the decode of the first subject failed and failed the compare; the second
\* subject settled after that, its decode answered and its lookup issued
C17_Witness ==
  \E r \in Slots :
    /\ op[r] = "compare"
    /\ settled[r] = <<1, 2>>
    /\ pipe[r][1].decoded.status = 500
    /\ CallCount(r, 1, "recalls/recallsByVehicle") = 0
    /\ result[r].kind = "error"
    /\ Ok(pipe[r][2].decoded)
    /\ CallCount(r, 2, "recalls/recallsByVehicle") = 1
    /\ pipe[r][2].pc = "returned"

\* the handler of slot r is over, with an output or with an error
Completed(r) == result[r].kind \in {"output", "error", "invalid"}

\* C18: when every issued call is eventually answered, the request that has
\* arrived eventually completes; what it completes with is an output
\* without an error or an error without an output, and it never changes
\* afterwards, whatever calls of a compare fail later.
C18_CompletesExactlyOnce ==
  /\ (op[1] # "none") ~> Completed(1)
  /\ [](\A r \in Slots :
          /\ result[r].kind = "output" => result[r].error = 0 /\ result[r].output # NoBody
          /\ result[r].kind = "error" => result[r].output = NoBody
          /\ Completed(r) <=> pc[r] = "done")
  /\ [][\A r \in Slots : Completed(r) => result'[r] = result[r]]_vars

\* a compare whose two decodes both failed, settled with the one error of
\* the first
C18_Witness ==
  \E r \in Slots :
    /\ op[r] = "compare"
    /\ Len(settled[r]) = 2
    /\ \A i \in DOMAIN pipe[r] : pipe[r][i].pc = "thrown" /\ pipe[r][i].decoded.status = 500
    /\ result[r] = Thrown(pipe[r][settled[r][1]].decoded.status)
    /\ pc[r] = "done"

\* the pairs of the list that carry Variable k
PairsOf(k) == {i \in 1..Len(raw) : raw[i].Variable = k}

\* C19 as stated: for every Variable of the list the result is what the last
\* pair carrying it gives: that pair's Value, or no entry when that Value is
\* '' or 'Not Applicable'; the value of an earlier pair is never the result.
C19_AsStated ==
  CleanDone =>
    \A k \in {raw[i].Variable : i \in 1..Len(raw)} :
      LET last == raw[Last(PairsOf(k))] IN
      IF last.Value \in Placeholders
      THEN k \notin DOMAIN cleaned
      ELSE Get(cleaned, k) = last.Value

Reorderings(n) ==
  {p \in [1..n -> 1..n] : \A i, j \in 1..n : i # j => p[i] # p[j]}

\* permutation p leaves the pairs of one Variable in the order they had
KeepsRepeatsInOrder(p) ==
  \A i, j \in 1..Len(raw) :
    (i < j /\ raw[p[i]].Variable = raw[p[j]].Variable) => p[i] < p[j]

\* C19, amended: among the pairs of a Variable whose Value is neither '' nor
\* 'Not Applicable' the later one wins: the result holds the Value of a
\* kept pair exactly when no kept pair of the same Variable follows it, so a
\* later '' or 'Not Applicable' pair takes nothing away; and the result is
\* the same for every reordering of the list that leaves the pairs of each
\* Variable in their order.
C19_LaterKeptPairWins ==
  CleanDone =>
    /\ \A i \in 1..Len(raw) :
         raw[i].Value \notin Placeholders =>
           LET later == {j \in KeptPairs(raw[i].Variable) : j > i} IN
           Get(cleaned, raw[i].Variable)
             = IF later = {} THEN raw[i].Value ELSE raw[Last(later)].Value
    /\ \A k \in DOMAIN cleaned : KeptPairs(k) # {}
    /\ \A p \in Reorderings(Len(raw)) :
         KeepsRepeatsInOrder(p) =>
           cleanVinResults([i \in 1..Len(raw) |-> raw[p[i]]]) = cleaned

\* Make given twice with kept values and Model between them: the second
\* Make is the result
C19_Witness ==
  /\ CleanDone
  /\ Len(raw) = 3
  /\ raw[1] = Pair("Make", Honda)
  /\ raw[2] = Pair("Model", NotApplicableLower)
  /\ raw[3] = Pair("Make", Tesla)
  /\ cleaned["Make"] = Tesla
  /\ cleaned["Model"] = NotApplicableLower

\* C20: in every output of recalls-by-vin and of complaints the count is the
\* length of the whole upstream list (0 when there was none), the list
\* returned has min(count, 20) entries, and the count is 0 exactly when the
\* list returned is empty.
C20_CountIsOfFullList ==
  \A r \in Slots :
    /\ (op[r] = "recalls-by-vin" /\ result[r].kind = "output") =>
         LET out == result[r].output IN
         /\ out.recallCount = (IF Len(got[r]) = 2 /\ Ok(got[r][2])
                                THEN Len(ListOf(got[r][2].body, "results")) ELSE 0)
         /\ Len(out.recalls) = Min(out.recallCount, LIST_CAP)
         /\ out.recallCount = 0 <=> out.recalls = <<>>
    /\ (op[r] = "complaints" /\ result[r].kind = "output") =>
         LET out == result[r].output IN
         /\ out.complaintCount = Len(ListOf(got[r][1].body, "results"))
         /\ Len(out.complaints) = Min(out.complaintCount, LIST_CAP)
         /\ out.complaintCount = 0 <=> out.complaints = <<>>

\* an upstream list of 21 recalls: the count is 21, 20 are returned
C20_Witness ==
  \E r \in Slots :
    /\ op[r] = "recalls-by-vin"
    /\ result[r].kind = "output"
    /\ result[r].output.recallCount = LIST_CAP + 1
    /\ Len(result[r].output.recalls) = LIST_CAP
    /\ result[r].output.recallCount > Len(result[r].output.recalls)

====
